---- MODULE Spec2Model ----
(***************************************************************************)
(* EduBot server: accounts, face-descriptor login and the progress        *)
(* aggregate that grading updates.                                         *)
(*                                                                         *)
(* Numbers.  A descriptor component is kept in tenths (3 stands for 0.3),  *)
(* so a squared difference is kept in hundredths.  A similarity value      *)
(* 1 - sqrt(x) is kept exactly as the fraction x = num/den; comparisons    *)
(* of similarities are comparisons of these fractions, reversed.           *)
(* Time is kept in ticks, TicksPerDay to a day; NowMs is the clock in ms.  *)
(***************************************************************************)
EXTENDS Integers, Sequences, FiniteSets, TLC

\* ------------------------------------------------------------------ bounds
TicksPerDay == 2
MaxTick == 8
MaxRequests == 3
MaxCompareLen == 3
MaxTextLen == 4

\* ------------------------------------------------------- program constants
DescriptorLength == 128
DayMs == 86400000
PointsPerCorrect == 10

\* The accounts: an id stands for the _id of an account's document.
UserIds == {1, 2}
\* The requests that can be in flight at once.
ReqIds == {1, 2}
NoToken == 0

\* Component values (tenths) the inputs are drawn from: 0.0, 0.3, 0.4.
CompVals == {0, 3, 4}
\* hundredths per unit: (x/10)^2 = x^2/100
Scale2 == 10 * 10

\* ------------------------------------------------------------ descriptors
\* faceDescriptor: null, or an array of numbers.
NoDescriptor == [set |-> FALSE, vec |-> <<>>]
Descriptor(v) == [set |-> TRUE, vec |-> v]

\* Arrays a client can put in a request body (any length, any numbers):
\* the empty array, one-component arrays and full-length arrays.
ClientVectors ==
  {<<>>} \cup {<<c>> : c \in CompVals}
         \cup {[i \in 1..DescriptorLength |-> c] : c \in {0, 4}}

\* Array.from({ length: 128 }, () => Math.random() * 2 - 1)
simulateFaceDetection == {[i \in 1..DescriptorLength |-> c] : c \in {0, 4}}

\* What a request may carry in its faceDescriptor field.
BodyDescriptors == {NoDescriptor} \cup {Descriptor(v) : v \in ClientVectors \cup simulateFaceDetection}

\* ------------------------------------------------------------- similarity
\* A similarity value s = 1 - sqrt(num/den), or NaN.
Sim(n, d) == [num |-> n, den |-> d]
SimZero == Sim(1, 1)
SimOne == Sim(0, 1)
SimNaN == Sim(0, 0)
\* 0.6 = 1 - sqrt(16/100)
threshold == Sim(16, 100)

IsNaN(s) == s.den = 0
\* a > b on numbers; false when either is NaN
SimGT(a, b) == ~IsNaN(a) /\ ~IsNaN(b) /\ a.num * b.den < b.num * a.den

\* for (i = 0; i < length; i++) sumSquaredDiff += diff * diff, summed over
\* the index range lo..hi by halves (the sum is the loop's sum).
RECURSIVE SumSquaredDiff(_, _, _, _)
SumSquaredDiff(d1, d2, lo, hi) ==
  IF lo > hi THEN 0
  ELSE IF lo = hi THEN (d1[lo] - d2[lo]) * (d1[lo] - d2[lo])
  ELSE LET mid == (lo + hi) \div 2
       IN SumSquaredDiff(d1, d2, lo, mid) + SumSquaredDiff(d1, d2, mid + 1, hi)

\* Math.max(0, 1 - distance / Math.sqrt(length)); 0/0 is NaN and Math.max(0, NaN) is NaN
calculateSimilarity(d1, d2) ==
  IF Len(d1) # Len(d2) THEN SimZero
  ELSE IF Len(d1) = 0 THEN SimNaN
  ELSE LET sumSquaredDiff == SumSquaredDiff(d1, d2, 1, Len(d1))
           n == Scale2 * Len(d1)
       IN IF sumSquaredDiff >= n THEN SimZero ELSE Sim(sumSquaredDiff, n)

\* ------------------------------------------------------------------ emails
\* An email address is the sequence of its characters.
\* String.prototype.toLowerCase on one character
LowerChar(c) == IF c = "A" THEN "a" ELSE IF c = "B" THEN "b" ELSE c
toLowerCase(str) == [i \in DOMAIN str |-> LowerChar(str[i])]

\* Addresses a client may send: one address in three spellings, and another.
ClientEmails ==
  {<<"a", "@", "b">>, <<"A", "@", "b">>, <<"a", "@", "B">>, <<"c", "@", "b">>}

\* body('email').isEmail().normalizeEmail(): the sanitizer lower-cases the
\* domain and, by default, the local part
normalizeEmail_keepCase(email) == email
normalizeEmail(email) == toLowerCase(email)

\* the schema's setter on email: lowercase: true
lowercase(email) == toLowerCase(email)

\* --------------------------------------------------------------- passwords
NoPassword == [hash |-> ""]
\* pre('save'): bcrypt.hash(this.password, salt)
hash(password) == [hash |-> password]
\* bcrypt.compare(candidatePassword, this.password)
comparePassword(candidatePassword, stored) == stored = hash(candidatePassword)
\* Passwords a client may send.
ClientPasswords == {"Abc123", "Abc124"}

\* faceRecognition.js keeps its own copy of the scorer.
calculateFaceSimilarity_unnormalised(descriptor1, descriptor2) ==
  IF Len(descriptor1) # Len(descriptor2) THEN SimZero
  ELSE IF Len(descriptor1) = 0 THEN SimNaN
  ELSE LET sumSquaredDiff == SumSquaredDiff(descriptor1, descriptor2, 1, Len(descriptor1))
       IN IF sumSquaredDiff >= Scale2 THEN SimZero ELSE Sim(sumSquaredDiff, Scale2)
calculateFaceSimilarity_prefix(descriptor1, descriptor2) ==
  LET n == IF Len(descriptor1) < Len(descriptor2) THEN Len(descriptor1) ELSE Len(descriptor2)
  IN IF n = 0 THEN SimNaN
     ELSE LET sumSquaredDiff == SumSquaredDiff(descriptor1, descriptor2, 1, n)
          IN IF sumSquaredDiff >= Scale2 * n THEN SimZero
             ELSE Sim(sumSquaredDiff, Scale2 * n)
calculateFaceSimilarity(descriptor1, descriptor2) ==
  IF Len(descriptor1) # Len(descriptor2) THEN SimZero
  ELSE IF Len(descriptor1) = 0 THEN SimNaN
  ELSE LET sumSquaredDiff == SumSquaredDiff(descriptor1, descriptor2, 1, Len(descriptor1))
           n == Scale2 * Len(descriptor1)
       IN IF sumSquaredDiff >= n THEN SimZero ELSE Sim(sumSquaredDiff, n)

\* --------------------------------------------------------------- accounts
NewProgress(t) ==
  [totalQuestions |-> 0, correctAnswers |-> 0, streakDays |-> 0,
   lastActiveDate |-> t, points |-> 0]

NoUser ==
  [exists |-> FALSE, email |-> <<>>, password |-> NoPassword,
   faceDescriptor |-> NoDescriptor, isActive |-> FALSE,
   loginMethod |-> "email", lastLogin |-> 0, progress |-> NewProgress(0)]

\* User.create with the schema's setters and defaults
NewUser(email, password, fd, t) ==
  [exists |-> TRUE, email |-> lowercase(email), password |-> hash(password),
   faceDescriptor |-> fd, isActive |-> TRUE,
   loginMethod |-> "email", lastLogin |-> t, progress |-> NewProgress(t)]

\* users, subjects: the two collections of the database; now: the server's
\* clock; reqs: the requests in flight; client: the browser's auth state;
\* resp, lastUpdate, hist: the last response, the last progress update and
\* the count of requests.
VARIABLES users, now, reqs, resp, lastUpdate, hist, subjects, client

vars == <<users, now, reqs, resp, lastUpdate, hist, subjects, client>>

NowMs == now * (DayMs \div TicksPerDay)

\* --------------------------------------------------------------- subjects
SubjectIds == {1, 2}
TopicIds == {1, 2}
\* A topic embedded in a subject; NoTopic is the null getTopic returns.
Topic(id, isActive) == [id |-> id, isActive |-> isActive]
NoTopic == [id |-> 0, isActive |-> FALSE]
NoSubject == [exists |-> FALSE, isActive |-> FALSE, topics |-> <<>>]
NoSubjects == [id \in SubjectIds |-> NoSubject]

\* topics: [topicSchema], with distinct _ids
TopicLists ==
  {<<>>}
    \cup {<<Topic(i, a)>> : i \in TopicIds, a \in BOOLEAN}
    \cup {<<Topic(p[1], a), Topic(p[2], b)>> :
            p \in {q \in TopicIds \X TopicIds : q[1] # q[2]},
            a \in BOOLEAN, b \in BOOLEAN}
SubjectDocs ==
  {NoSubject}
    \cup {[exists |-> TRUE, isActive |-> a, topics |-> tl] : a \in BOOLEAN, tl \in TopicLists}

\* subjectSchema.methods.getTopic: this.topics.id(topicId)
getTopic(subject, topicId) ==
  LET at == {i \in DOMAIN subject.topics : subject.topics[i].id = topicId}
  IN IF at = {} THEN NoTopic ELSE subject.topics[CHOOSE i \in at : TRUE]

\* subjectSchema.methods.getActiveTopics
IsActiveTopic(topic) == topic.isActive
getActiveTopics(subject) == SelectSeq(subject.topics, IsActiveTopic)

\* ------------------------------------------------------ JavaScript values
\* The values the client's auth state holds.
JsNull == [t |-> "null"]
JsUndefined == [t |-> "undefined"]
Str(str) == [t |-> "string", s |-> str]
\* An object with the properties id and firstName; a property the object
\* does not have is JsUndefined.
Obj(id, firstName) == [t |-> "object", id |-> id, firstName |-> firstName]
IsTruthy(v) == v.t = "object" \/ (v.t = "string" /\ v.s # "")
\* { ...a, ...b }: spreading null or undefined adds no property
Spread(a, b) ==
  LET oa == IF a.t = "object" THEN a ELSE Obj(JsUndefined, JsUndefined)
      ob == IF b.t = "object" THEN b ELSE Obj(JsUndefined, JsUndefined)
  IN Obj(IF ob.id # JsUndefined THEN ob.id ELSE oa.id,
         IF ob.firstName # JsUndefined THEN ob.firstName ELSE oa.firstName)

\* -------------------------------------------------------- client auth state
\* initialState, with the token localStorage holds; stored is localStorage's
\* token, pc the position of checkAuth, check what became of its request,
\* last the function that ran last, authed whether AUTH_SUCCESS was
\* dispatched since the last AUTH_FAILURE or LOGOUT.
initialState(storedToken) ==
  [user |-> JsNull, token |-> storedToken, loading |-> TRUE, error |-> JsNull,
   stored |-> storedToken, pc |-> "mount", checkToken |-> JsNull, check |-> "",
   signing |-> FALSE, last |-> "", authed |-> FALSE]

Action(type, payload) == [type |-> type, payload |-> payload]

authReducer(state, action) ==
  IF action.type = "AUTH_START"
  THEN [state EXCEPT !.loading = TRUE, !.error = JsNull]
  ELSE IF action.type = "AUTH_SUCCESS"
  THEN [state EXCEPT !.user = action.payload.user, !.token = action.payload.token,
                     !.loading = FALSE, !.error = JsNull, !.authed = TRUE]
  ELSE IF action.type = "AUTH_FAILURE"
  THEN [state EXCEPT !.user = JsNull, !.token = JsNull, !.loading = FALSE,
                     !.error = action.payload, !.authed = FALSE]
  ELSE IF action.type = "LOGOUT"
  THEN [state EXCEPT !.user = JsNull, !.token = JsNull, !.loading = FALSE,
                     !.error = JsNull, !.authed = FALSE]
  ELSE IF action.type = "UPDATE_USER"
  THEN [state EXCEPT !.user = Spread(state.user, action.payload)]
  ELSE IF action.type = "CLEAR_ERROR"
  THEN [state EXCEPT !.error = JsNull]
  ELSE state

\* --------------------------------------------------------------- responses
NoStats == [totalQuestions |-> 0, correctAnswers |-> 0, streakDays |-> 0, points |-> 0]

\* The response of the handler that completed last, with the request fields
\* the handler read (query, questionType, answer, correctAnswer), the number
\* of evaluator calls it made, the kind of text the evaluator returned and
\* the accounts whose stored document it changed.
Response(op, status, message) ==
  [op |-> op, status |-> status, message |-> message, user |-> NoToken,
   token |-> NoToken, email |-> <<>>,
   similarity |-> SimZero, query |-> NoDescriptor,
   questionType |-> "", isCorrect |-> "false", feedback |-> "",
   evaluatorCalls |-> 0, userStats |-> NoStats, changed |-> {},
   errors |-> {}, answer |-> "", correctAnswer |-> "", reply |-> "",
   descriptor1 |-> NoDescriptor, descriptor2 |-> NoDescriptor, isMatch |-> FALSE,
   text |-> <<>>, questions |-> <<>>,
   subjectId |-> 0, topicId |-> 0, topics |-> <<>>, topic |-> NoTopic]

\* The accounts whose stored document a step changes.
Changed == {id \in UserIds : users'[id] # users[id]}

NoUpdate ==
  [made |-> FALSE, truthy |-> FALSE, at |-> 0, stored |-> NewProgress(0),
   before |-> NewProgress(0), after |-> NewProgress(0)]

\* auth middleware: the bearer token names an account that still exists
Authenticated(id) == users[id].exists

\* User.findOne({ email })
findOne(us, email) == {id \in UserIds : us[id].exists /\ us[id].email = email}

\* ------------------------------------------------------ POST /auth/register
\* id is the _id the new document gets.
Register(id, valid, rawEmail, password, fd) ==
  /\ IF ~valid
     THEN /\ resp' = [Response("register", 400, "Validation failed")
                        EXCEPT !.email = rawEmail]
          /\ UNCHANGED users
     ELSE LET email == normalizeEmail(rawEmail)
          IN IF findOne(users, email) # {}
             THEN /\ resp' = [Response("register", 400, "User with this email already exists")
                                EXCEPT !.email = rawEmail]
                  /\ UNCHANGED users
             ELSE IF findOne(users, lowercase(email)) # {}
             THEN \* unique: true on the stored email: User.create rejects and
                  \* the error goes to the error middleware
                  /\ resp' = [Response("register", 500, "duplicate key")
                                EXCEPT !.email = rawEmail]
                  /\ UNCHANGED users
             ELSE /\ ~users[id].exists
                  /\ users' = [users EXCEPT ![id] = NewUser(email, password, fd, NowMs)]
                  /\ resp' = [Response("register", 201, "User registered successfully")
                                EXCEPT !.token = id, !.user = id, !.email = rawEmail,
                                       !.changed = Changed]
  /\ UNCHANGED <<now, reqs, lastUpdate, hist, subjects, client>>

\* --------------------------------------------------------- POST /auth/login
\* The status and message of the answer to a login request that passed
\* validation, and the account it found.
LoginOutcome_noActiveCheck(us, email, password) ==
  LET found == findOne(us, email)
  IN IF found = {}
     THEN [status |-> 401, message |-> "Invalid credentials", user |-> NoToken]
     ELSE LET user == CHOOSE id \in found : TRUE
          IN IF ~comparePassword(password, us[user].password)
             THEN [status |-> 401, message |-> "Invalid credentials", user |-> NoToken]
             ELSE [status |-> 200, message |-> "Login successful", user |-> user]
LoginOutcome(us, email, password) ==
  LET found == findOne(us, email)
  IN IF found = {}
     THEN [status |-> 401, message |-> "Invalid credentials", user |-> NoToken]
     ELSE LET user == CHOOSE id \in found : TRUE
          IN IF ~us[user].isActive
             THEN [status |-> 401, message |-> "Account is deactivated", user |-> NoToken]
             ELSE IF ~comparePassword(password, us[user].password)
             THEN [status |-> 401, message |-> "Invalid credentials", user |-> NoToken]
             ELSE [status |-> 200, message |-> "Login successful", user |-> user]

Login(valid, rawEmail, password) ==
  /\ IF ~valid
     THEN /\ resp' = [Response("login", 400, "Validation failed")
                        EXCEPT !.email = rawEmail]
          /\ UNCHANGED users
     ELSE LET o == LoginOutcome(users, normalizeEmail(rawEmail), password)
          IN /\ IF o.status = 200
                THEN users' = [users EXCEPT ![o.user].lastLogin = NowMs,
                                            ![o.user].loginMethod = "email"]
                ELSE UNCHANGED users
             /\ resp' = [Response("login", o.status, o.message)
                           EXCEPT !.email = rawEmail, !.token = o.user,
                                  !.user = o.user, !.changed = Changed]
  /\ UNCHANGED <<now, reqs, lastUpdate, hist, subjects, client>>

\* -------------------------------------------------- POST /user/face-register
UserFaceRegister(id, fd) ==
  /\ Authenticated(id)
  /\ IF ~fd.set
     THEN /\ resp' = [Response("user/face-register", 400,
                               "Face descriptor is required and must be an array")
                        EXCEPT !.user = id]
          /\ UNCHANGED users
     ELSE /\ users' = [users EXCEPT ![id].faceDescriptor = fd]
          /\ resp' = [Response("user/face-register", 200, "Face registered successfully")
                        EXCEPT !.user = id]
  /\ UNCHANGED <<now, reqs, lastUpdate, hist, subjects, client>>

\* ------------------------------------------- POST /face-recognition/register
FaceRecognitionRegister(id, hasFile, descriptor) ==
  /\ Authenticated(id)
  /\ IF ~hasFile
     THEN /\ resp' = [Response("face-recognition/register", 400, "No image file provided")
                        EXCEPT !.user = id]
          /\ UNCHANGED users
     ELSE /\ users' = [users EXCEPT ![id].faceDescriptor = Descriptor(descriptor)]
          /\ resp' = [Response("face-recognition/register", 200, "Face registered successfully")
                        EXCEPT !.user = id]
  /\ UNCHANGED <<now, reqs, lastUpdate, hist, subjects, client>>

\* ---------- DELETE /user/face-register and DELETE /face-recognition/register
RemoveFaceRegistration(id) ==
  /\ Authenticated(id)
  /\ users' = [users EXCEPT ![id].faceDescriptor = NoDescriptor]
  /\ resp' = [Response("face-register/delete", 200, "Face registration removed successfully")
                EXCEPT !.user = id]
  /\ UNCHANGED <<now, reqs, lastUpdate, hist, subjects, client>>

\* ----------------------------------------------------- DELETE /user/account
DeleteAccount(id) ==
  /\ Authenticated(id)
  /\ users' = [users EXCEPT ![id] = NoUser]
  /\ resp' = [Response("user/account/delete", 200, "Account deleted successfully")
                EXCEPT !.user = id]
  /\ UNCHANGED <<now, reqs, lastUpdate, hist, subjects, client>>

\* isActive is read by the login routes and written by none of them: an
\* account is deactivated by a write to the database from outside the routes.
Deactivate(id) ==
  /\ users[id].exists
  /\ users[id].isActive
  /\ users' = [users EXCEPT ![id].isActive = FALSE]
  /\ resp' = Response("deactivate", 0, "")
  /\ UNCHANGED <<now, reqs, lastUpdate, hist, subjects, client>>

\* ---------------------------------------------------- POST /auth/face-login
NoMatch == [matchedUser |-> NoToken, bestMatch |-> SimZero]

\* if (similarity > threshold && similarity > bestMatch)
Accepts_orEqual(similarity, bestMatch) ==
  SimGT(similarity, threshold) /\ ~SimGT(bestMatch, similarity)
Accepts_noThreshold(similarity, bestMatch) == SimGT(similarity, bestMatch)
Accepts_firstAbove(similarity, bestMatch) ==
  SimGT(similarity, threshold) /\ bestMatch = SimZero
Accepts(similarity, bestMatch) ==
  SimGT(similarity, threshold) /\ SimGT(similarity, bestMatch)

\* for (const user of users) over User.find({faceDescriptor: {$exists, $ne: null}})
RECURSIVE FaceLoginLoop(_, _, _, _)
FaceLoginLoop(us, faceDescriptor, i, acc) ==
  IF i > Cardinality(UserIds) THEN acc
  ELSE LET user == us[i]
           found == user.exists /\ user.faceDescriptor.set
           similarity == calculateSimilarity(faceDescriptor, user.faceDescriptor.vec)
       IN IF /\ found
             /\ Len(user.faceDescriptor.vec) = Len(faceDescriptor)
             /\ Accepts(similarity, acc.bestMatch)
          THEN FaceLoginLoop(us, faceDescriptor, i + 1,
                             [matchedUser |-> i, bestMatch |-> similarity])
          ELSE FaceLoginLoop(us, faceDescriptor, i + 1, acc)

FaceLogin(body) ==
  /\ IF ~body.set
     THEN /\ resp' = Response("face-login", 400, "Face descriptor is required")
          /\ UNCHANGED users
     ELSE LET m == FaceLoginLoop(users, body.vec, 1, NoMatch)
              matchedUser == m.matchedUser
          IN IF matchedUser = NoToken
             THEN /\ UNCHANGED users
                  /\ resp' = [Response("face-login", 401, "Face not recognized")
                                EXCEPT !.query = body, !.changed = Changed]
             ELSE IF ~users[matchedUser].isActive
             THEN /\ UNCHANGED users
                  /\ resp' = [Response("face-login", 401, "Account is deactivated")
                                EXCEPT !.query = body, !.changed = Changed]
             ELSE /\ users' = [users EXCEPT ![matchedUser].lastLogin = NowMs,
                                            ![matchedUser].loginMethod = "face"]
                  /\ resp' = [Response("face-login", 200, "Face login successful")
                                EXCEPT !.query = body, !.token = matchedUser,
                                       !.user = matchedUser, !.similarity = m.bestMatch,
                                       !.changed = Changed]
  /\ UNCHANGED <<now, reqs, lastUpdate, hist, subjects, client>>

\* ------------------------------------------------------------ requests
IdleReq == [pc |-> "idle", user |-> NoToken, op |-> "", doc |-> NewProgress(0)]
NoHist == [started |-> 0, graded |-> 0, correct |-> 0, overlap |-> FALSE]

\* An empty database and no request in flight.
Init ==
  /\ users = [id \in UserIds |-> NoUser]
  /\ now = 0
  /\ reqs = [r \in ReqIds |-> IdleReq]
  /\ resp = Response("", 0, "")
  /\ lastUpdate = NoUpdate
  /\ hist = NoHist
  /\ subjects = NoSubjects
  /\ client = initialState(JsNull)

\* Face registration and face login; each account is registered under an
\* address of its own.
AddressOf == [id \in UserIds |-> IF id = 1 THEN <<"a", "@", "b">> ELSE <<"c", "@", "b">>]

Next ==
  \/ \E id \in UserIds, valid \in BOOLEAN, fd \in BodyDescriptors :
       Register(id, valid, AddressOf[id], "Abc123", fd)
  \/ \E id \in UserIds, fd \in BodyDescriptors : UserFaceRegister(id, fd)
  \/ \E id \in UserIds, hasFile \in BOOLEAN, d \in simulateFaceDetection :
       FaceRecognitionRegister(id, hasFile, d)
  \/ \E id \in UserIds : RemoveFaceRegistration(id)
  \/ \E id \in UserIds : DeleteAccount(id)
  \/ \E id \in UserIds : Deactivate(id)
  \/ \E body \in BodyDescriptors : FaceLogin(body)

Spec == Init /\ [][Next]_vars

\* ------------------------------------------ POST /face-recognition/compare
\* A body field that is not an array: a non-empty string.
NotArray == [set |-> TRUE, vec |-> <<>>, array |-> FALSE]
IsArray(d) == d.set /\ "array" \notin DOMAIN d

Compare(descriptor1, descriptor2) ==
  /\ IF ~descriptor1.set \/ ~descriptor2.set
     THEN resp' = [Response("compare", 400, "Both face descriptors are required")
                     EXCEPT !.descriptor1 = descriptor1, !.descriptor2 = descriptor2]
     ELSE IF ~IsArray(descriptor1) \/ ~IsArray(descriptor2)
     THEN resp' = [Response("compare", 400, "Face descriptors must be arrays")
                     EXCEPT !.descriptor1 = descriptor1, !.descriptor2 = descriptor2]
     ELSE LET similarity == calculateFaceSimilarity(descriptor1.vec, descriptor2.vec)
              isMatch == SimGT(similarity, threshold)
          IN resp' = [Response("compare", 200, "")
                        EXCEPT !.descriptor1 = descriptor1, !.descriptor2 = descriptor2,
                               !.similarity = similarity, !.isMatch = isMatch]
  /\ UNCHANGED <<users, now, reqs, lastUpdate, hist, subjects, client>>

\* Component values (tenths) of the arrays compared: -1.0, 0.0, 0.3, 1.0
CompareVals == {0 - 10, 0, 3, 10}
CompareVectors == UNION {[1..n -> CompareVals] : n \in 0..MaxCompareLen}
CompareBodies == {NoDescriptor, NotArray} \cup {Descriptor(v) : v \in CompareVectors}

\* The route reads and writes no stored state: a compare request arrives
\* with its two fields and is answered.
InitCompare ==
  /\ users = [id \in UserIds |-> NoUser]
  /\ now = 0
  /\ reqs = [r \in ReqIds |-> IdleReq]
  /\ \E descriptor1 \in CompareBodies, descriptor2 \in CompareBodies :
       resp = [Response("", 0, "")
                 EXCEPT !.descriptor1 = descriptor1, !.descriptor2 = descriptor2]
  /\ lastUpdate = NoUpdate
  /\ hist = NoHist
  /\ subjects = NoSubjects
  /\ client = initialState(JsNull)

NextCompare == resp.op = "" /\ Compare(resp.descriptor1, resp.descriptor2)

SpecCompare == InitCompare /\ [][NextCompare]_vars

\* ------------------------------------------------------- subject routes
\* The checks the four routes share: Subject.findById, then isActive.
SubjectFound(id) == subjects[id].exists
SubjectRefused(op, id) ==
  IF ~SubjectFound(id)
  THEN [Response(op, 404, "Subject not found") EXCEPT !.subjectId = id]
  ELSE [Response(op, 404, "Subject is not available") EXCEPT !.subjectId = id]
SubjectServed(id) == SubjectFound(id) /\ subjects[id].isActive

Unchanged == UNCHANGED <<users, now, reqs, lastUpdate, hist, subjects, client>>

\* GET /subjects/:id
GetSubject(id) ==
  /\ resp' = IF ~SubjectServed(id) THEN SubjectRefused("subject", id)
             ELSE [Response("subject", 200, "")
                     EXCEPT !.subjectId = id, !.topics = subjects[id].topics]
  /\ Unchanged

\* GET /subjects/:id/topics
GetTopics(id) ==
  /\ resp' = IF ~SubjectServed(id) THEN SubjectRefused("topics", id)
             ELSE [Response("topics", 200, "")
                     EXCEPT !.subjectId = id, !.topics = getActiveTopics(subjects[id])]
  /\ Unchanged

\* GET /subjects/:id/topics/:topicId
GetTopic(id, topicId) ==
  /\ resp' = IF ~SubjectServed(id)
             THEN [SubjectRefused("topic", id) EXCEPT !.topicId = topicId]
             ELSE LET topic == getTopic(subjects[id], topicId)
                  IN IF topic = NoTopic
                     THEN [Response("topic", 404, "Topic not found")
                             EXCEPT !.subjectId = id, !.topicId = topicId]
                     ELSE IF ~topic.isActive
                     THEN [Response("topic", 404, "Topic is not available")
                             EXCEPT !.subjectId = id, !.topicId = topicId]
                     ELSE [Response("topic", 200, "")
                             EXCEPT !.subjectId = id, !.topicId = topicId,
                                    !.topic = topic]
  /\ Unchanged

\* POST /subjects/:id/request-questions; topicId 0 is a body without topicId
RequestQuestions(id, topicId) ==
  /\ resp' = IF ~SubjectServed(id)
             THEN [SubjectRefused("request-questions", id) EXCEPT !.topicId = topicId]
             ELSE LET topic == IF topicId # 0 THEN getTopic(subjects[id], topicId)
                              ELSE NoTopic
                  IN IF topicId # 0 /\ (topic = NoTopic \/ ~topic.isActive)
                     THEN [Response("request-questions", 404,
                                    "Topic not found or not available")
                             EXCEPT !.subjectId = id, !.topicId = topicId]
                     ELSE [Response("request-questions", 200, "Question request received")
                             EXCEPT !.subjectId = id, !.topicId = topicId,
                                    !.topic = topic]
  /\ Unchanged

\* No route creates or changes a subject: the collection is what it was
\* when the server started.
InitSubject ==
  /\ users = [id \in UserIds |-> NoUser]
  /\ now = 0
  /\ reqs = [r \in ReqIds |-> IdleReq]
  /\ resp = Response("", 0, "")
  /\ lastUpdate = NoUpdate
  /\ hist = NoHist
  /\ subjects \in [SubjectIds -> SubjectDocs]
  /\ client = initialState(JsNull)

NextSubject ==
  \/ \E id \in SubjectIds : GetSubject(id)
  \/ \E id \in SubjectIds : GetTopics(id)
  \/ \E id \in SubjectIds, topicId \in TopicIds : GetTopic(id, topicId)
  \/ \E id \in SubjectIds, topicId \in TopicIds \cup {0} : RequestQuestions(id, topicId)

SpecSubject == InitSubject /\ [][NextSubject]_vars

\* ------------------------------------------------------------- the client
\* obj.field: undefined when the object has no such property
Get(obj, field) == IF field \in DOMAIN obj THEN obj[field] ELSE JsUndefined

\* The account object the server sends, and the bodies that carry it.
ServerUser == Obj(Str("u1"), Str("Ann"))
MeBody == [status |-> "success", data |-> [user |-> ServerUser]]
LoginBody ==
  [status |-> "success", message |-> "Login successful",
   data |-> [user |-> ServerUser, token |-> Str("good")]]

\* What localStorage may hold when the application is first loaded: no
\* token, or one issued long ago; and the tokens the server's auth
\* middleware accepts.
StoredTokens == {JsNull, Str("expired")}
TokenAccepted(token) == token = Str("good")

\* What a protected route shows.
ProtectedRoute(state) ==
  IF state.loading THEN "spinner"
  ELSE IF IsTruthy(state.user) THEN "children" ELSE "login"

ServerUnchanged == UNCHANGED <<users, now, reqs, resp, lastUpdate, hist, subjects>>

\* checkAuth up to its await: no token, or AUTH_START and GET /auth/me sent
\* with the stored token.
CheckAuthStart ==
  /\ client.pc = "mount"
  /\ LET token == client.stored
     IN IF IsTruthy(token)
        THEN client' = [authReducer(client, Action("AUTH_START", JsNull))
                          EXCEPT !.pc = "checking", !.checkToken = token,
                                 !.last = "checkAuth start"]
        ELSE client' = [authReducer(client, Action("AUTH_FAILURE", JsNull))
                          EXCEPT !.pc = "done", !.check = "none", !.last = "checkAuth"]
  /\ ServerUnchanged

\* GET /auth/me answers 200 and checkAuth dispatches AUTH_SUCCESS.
CheckAuthAccepted ==
  /\ client.pc = "checking"
  /\ TokenAccepted(client.checkToken)
  /\ LET response == [data |-> MeBody]
         token == client.checkToken
     IN client' = [authReducer(client,
                               Action("AUTH_SUCCESS",
                                      [user |-> Get(response.data, "user"), token |-> token]))
                     EXCEPT !.pc = "done", !.check = "accepted", !.last = "checkAuth"]
  /\ ServerUnchanged

\* GET /auth/me answers 401: the response interceptor and then the catch
\* block remove the stored token, and AUTH_FAILURE is dispatched.
CheckAuthRejected ==
  /\ client.pc = "checking"
  /\ ~TokenAccepted(client.checkToken)
  /\ client' = [authReducer(client, Action("AUTH_FAILURE", Str("Authentication failed")))
                  EXCEPT !.stored = JsNull, !.pc = "done", !.check = "rejected",
                         !.last = "checkAuth"]
  /\ ServerUnchanged

\* login, faceLogin and register up to their await.
SignInStart ==
  /\ ~client.signing
  /\ client' = [authReducer(client, Action("AUTH_START", JsNull))
                  EXCEPT !.signing = TRUE, !.last = "login start"]
  /\ ServerUnchanged

\* The server answers with an account and a token.
SignInSucceeds ==
  /\ client.signing
  /\ LET response == [data |-> LoginBody]
         data == Get(response.data, "data")
     IN client' = [authReducer(client,
                               Action("AUTH_SUCCESS",
                                      [user |-> Get(data, "user"), token |-> Get(data, "token")]))
                     EXCEPT !.stored = Get(data, "token"), !.signing = FALSE,
                            !.last = "login"]
  /\ ServerUnchanged

\* The server answers with an error; on 401 the response interceptor
\* removes the stored token.
SignInFails(status, message) ==
  /\ client.signing
  /\ client' = [authReducer(client, Action("AUTH_FAILURE", Str(message)))
                  EXCEPT !.stored = IF status = 401 THEN JsNull ELSE @,
                         !.signing = FALSE, !.last = "login"]
  /\ ServerUnchanged

logout ==
  /\ client' = [authReducer(client, Action("LOGOUT", JsNull))
                  EXCEPT !.stored = JsNull, !.last = "logout"]
  /\ ServerUnchanged

updateUser(userData) ==
  /\ client' = [authReducer(client, Action("UPDATE_USER", userData))
                  EXCEPT !.last = "updateUser"]
  /\ ServerUnchanged

clearError ==
  /\ client' = [authReducer(client, Action("CLEAR_ERROR", JsNull))
                  EXCEPT !.last = "clearError"]
  /\ ServerUnchanged

\* The browser loads the application again (a reload, or the navigation
\* the response interceptor starts): the state is the initial one, with
\* the token localStorage holds now.
Reload ==
  /\ client.last # ""
  /\ client' = initialState(client.stored)
  /\ ServerUnchanged

InitClient ==
  /\ users = [id \in UserIds |-> NoUser]
  /\ now = 0
  /\ reqs = [r \in ReqIds |-> IdleReq]
  /\ resp = Response("", 0, "")
  /\ lastUpdate = NoUpdate
  /\ hist = NoHist
  /\ subjects = NoSubjects
  /\ client \in {initialState(token) : token \in StoredTokens}

NextClient ==
  \/ CheckAuthStart
  \/ CheckAuthAccepted
  \/ CheckAuthRejected
  \/ SignInStart
  \/ SignInSucceeds
  \/ \E status \in {400, 401} :
       SignInFails(status, IF status = 401 THEN "Invalid credentials"
                           ELSE "Validation failed")
  \/ logout
  \/ \E userData \in {Obj(JsUndefined, Str("Bob"))} : updateUser(userData)
  \/ clearError
  \/ Reload

SpecClient == InitClient /\ [][NextClient]_vars

\* Registration and login by password and by face, with addresses in several
\* spellings and one-component descriptors.
NextAuth ==
  \/ \E id \in UserIds, valid \in BOOLEAN, email \in ClientEmails,
        fd \in {NoDescriptor, Descriptor(<<0>>), Descriptor(<<3>>)} :
       Register(id, valid, email, "Abc123", fd)
  \/ \E valid \in BOOLEAN, email \in ClientEmails, password \in ClientPasswords :
       Login(valid, email, password)
  \/ \E body \in {NoDescriptor} \cup {Descriptor(<<c>>) : c \in CompVals} : FaceLogin(body)
  \/ \E id \in UserIds : DeleteAccount(id)
  \/ \E id \in UserIds : Deactivate(id)

SpecAuth == Init /\ [][NextAuth]_vars

\* ================================================== grading and progress
QuestionTypes == {"MCQ", "coding", "network", "sql", "chatbot"}

\* JavaScript values the evaluator's JSON may carry in isCorrect, by name:
\* true, false, a missing field, the string 'false', the number 1.
JsVals == {"true", "false", "undefined", "'false'", "1"}
Truthy(v) == v \in {"true", "'false'", "1"}
\* v || false
OrFalse(v) == IF Truthy(v) THEN v ELSE "false"
\* s || d  on strings
OrDefault(str, d) == IF str = "" THEN d ELSE str

\* Texts the evaluator may return: no {...} substring, a {...} substring that
\* is not JSON, or a JSON object.
EvalObject(c, f, e) == [json |-> "object", isCorrect |-> c, feedback |-> f, explanation |-> e]
EvalReplies ==
  {[json |-> "none", isCorrect |-> "undefined", feedback |-> "", explanation |-> ""],
   [json |-> "invalid", isCorrect |-> "undefined", feedback |-> "", explanation |-> ""],
   EvalObject("true", "Well done", "Matches the reference"),
   EvalObject("false", "", ""),
   EvalObject("undefined", "Unclear", ""),
   EvalObject("'false'", "Wrong", ""),
   EvalObject("1", "", "")}

parseCodeEvaluation_noCatch(text) ==
  IF text.json = "none"
  THEN [isCorrect |-> "false", feedback |-> "Unable to evaluate answer",
        explanation |-> "Evaluation failed"]
  ELSE [isCorrect |-> OrFalse(text.isCorrect),
        feedback |-> OrDefault(text.feedback, "No feedback provided"),
        explanation |-> OrDefault(text.explanation, "No explanation provided")]
parseCodeEvaluation(text) ==
  IF text.json = "none"
  THEN [isCorrect |-> "false", feedback |-> "Unable to evaluate answer",
        explanation |-> "Evaluation failed"]
  ELSE IF text.json = "invalid"
  THEN [isCorrect |-> "false", feedback |-> "Error evaluating answer",
        explanation |-> "Evaluation failed due to parsing error"]
  ELSE [isCorrect |-> OrFalse(text.isCorrect),
        feedback |-> OrDefault(text.feedback, "No feedback provided"),
        explanation |-> OrDefault(text.explanation, "No explanation provided")]

parseSQLEvaluation(text) ==
  IF text.json = "none"
  THEN [isCorrect |-> "false", feedback |-> "Unable to evaluate SQL answer",
        explanation |-> "Evaluation failed"]
  ELSE IF text.json = "invalid"
  THEN [isCorrect |-> "false", feedback |-> "Error evaluating SQL answer",
        explanation |-> "Evaluation failed due to parsing error"]
  ELSE [isCorrect |-> OrFalse(text.isCorrect),
        feedback |-> OrDefault(text.feedback, "No feedback provided"),
        explanation |-> OrDefault(text.explanation, "No explanation provided")]

\* A text of the generator is the sequence of its characters: the brackets,
\* "q" for a JSON value that is not an array (a question object, with the
\* comma that separates it) and "t" for any other character.
TextChars == {"[", "]", "q", "t"}
Positions(text, ch) == {i \in DOMAIN text : text[i] = ch}
Min(S) == CHOOSE x \in S : \A y \in S : x <= y
Max(S) == CHOOSE x \in S : \A y \in S : x >= y

\* text.match(/\[[\s\S]*\]/): from the first "[" to the last "]" after it
jsonMatch(text) ==
  LET opens == Positions(text, "[")
      closes == {j \in Positions(text, "]") : opens # {} /\ j > Min(opens)}
  IN IF closes = {} THEN [found |-> FALSE, span |-> <<>>]
     ELSE [found |-> TRUE, span |-> SubSeq(text, Min(opens), Max(closes))]

\* The number of arrays open after the first i characters.
RECURSIVE Depth(_, _)
Depth(str, i) ==
  IF i = 0 THEN 0
  ELSE Depth(str, i - 1)
         + (IF str[i] = "[" THEN 1 ELSE IF str[i] = "]" THEN 0 - 1 ELSE 0)

\* JSON.parse(str) returns an array: str is one array of values and arrays
IsJsonArray(str) ==
  /\ Len(str) >= 2
  /\ str[1] = "["
  /\ \A i \in DOMAIN str : str[i] # "t"
  /\ \A i \in 1..(Len(str) - 1) : Depth(str, i) > 0
  /\ Depth(str, Len(str)) = 0

\* Texts the generator returns in the runs that follow the progress
\* aggregate: no [...] substring, a [...] substring that is not JSON, and a
\* JSON array of one question.
GenReplies == {<<"t">>, <<"[", "t", "]">>, <<"[", "q", "]">>}

\* parseGeneratedQuestions: the array parsed, or the error thrown
parseGeneratedQuestions(text) ==
  LET m == jsonMatch(text)
  IN IF m.found /\ IsJsonArray(m.span)
     THEN [threw |-> FALSE, questions |-> m.span]
     ELSE [threw |-> TRUE, questions |-> <<>>]

\* new Date(x).toDateString(): the calendar day of a time in milliseconds
toDateString(ms) == ms \div DayMs

\* updateProgress, the streak: same day, consecutive day, streak broken
StreakAfter_noSameDay(progress, ms) ==
  IF progress.lastActiveDate + DayMs >= ms
  THEN progress.streakDays + 1
  ELSE 1
StreakAfter_keepOnBreak(progress, ms) ==
  IF toDateString(ms) = toDateString(progress.lastActiveDate)
  THEN progress.streakDays
  ELSE IF progress.lastActiveDate + DayMs >= ms
  THEN progress.streakDays + 1
  ELSE progress.streakDays
StreakAfter(progress, ms) ==
  IF toDateString(ms) = toDateString(progress.lastActiveDate)
  THEN progress.streakDays
  ELSE IF progress.lastActiveDate + DayMs >= ms
  THEN progress.streakDays + 1
  ELSE 1

\* userSchema.methods.updateProgress, on the document's progress
updateProgress(progress, isCorrect, ms) ==
  [totalQuestions |-> progress.totalQuestions + 1,
   correctAnswers |-> IF Truthy(isCorrect) THEN progress.correctAnswers + 1
                      ELSE progress.correctAnswers,
   points |-> IF Truthy(isCorrect) THEN progress.points + PointsPerCorrect
              ELSE progress.points,
   streakDays |-> StreakAfter(progress, ms),
   lastActiveDate |-> ms]

ProgressFields == {"totalQuestions", "correctAnswers", "points", "streakDays", "lastActiveDate"}

\* this.save(): the paths the document changed since it was loaded are
\* written over whatever the database holds; the others are left alone.
save_increments(stored, loaded, doc) ==
  [f \in ProgressFields |->
     IF f = "lastActiveDate" \/ f = "streakDays"
     THEN (IF doc[f] # loaded[f] THEN doc[f] ELSE stored[f])
     ELSE stored[f] + (doc[f] - loaded[f])]
save(stored, loaded, doc) ==
  [f \in ProgressFields |-> IF doc[f] # loaded[f] THEN doc[f] ELSE stored[f]]

\* user.getStats()
getStats(progress) ==
  [totalQuestions |-> progress.totalQuestions,
   correctAnswers |-> progress.correctAnswers,
   streakDays |-> progress.streakDays,
   points |-> progress.points]

InFlight(id) == {r \in ReqIds : reqs[r].pc # "idle" /\ reqs[r].user = id}

\* The clock advances.
Tick ==
  /\ now < MaxTick
  /\ now' = now + 1
  /\ UNCHANGED <<users, reqs, resp, lastUpdate, hist, subjects, client>>

\* auth middleware: a request with a valid token arrives and the account's
\* document is loaded into req.user.
AuthLoad(r, id) ==
  /\ reqs[r].pc = "idle"
  /\ Authenticated(id)
  /\ hist.started < MaxRequests
  /\ reqs' = [reqs EXCEPT ![r] = [pc |-> "loaded", user |-> id, op |-> "",
                                  doc |-> users[id].progress]]
  /\ hist' = [hist EXCEPT !.started = @ + 1,
                          !.overlap = @ \/ InFlight(id) # {}]
  /\ UNCHANGED <<users, now, resp, lastUpdate, subjects, client>>

\* await user.updateProgress(isCorrect) by request r, and the bookkeeping
\* of the call.
DoUpdate(r, isCorrect) ==
  LET id == reqs[r].user
      loaded == reqs[r].doc
      doc == updateProgress(loaded, isCorrect, NowMs)
  IN /\ users' = [users EXCEPT ![id].progress = save(@, loaded, doc)]
     /\ lastUpdate' = [made |-> TRUE, truthy |-> Truthy(isCorrect), at |-> NowMs,
                       stored |-> users[id].progress,
                       before |-> loaded, after |-> doc]

Finish(r) == reqs' = [reqs EXCEPT ![r] = IdleReq]

\* What a grading answer is computed from: the submitted and the correct
\* answer where the handler compares them itself, the kind of the
\* evaluator's text where it asks the evaluator.
Submitted(answer, correctAnswer) ==
  [answer |-> answer, correctAnswer |-> correctAnswer, reply |-> ""]
Replied(text) == [answer |-> "", correctAnswer |-> "", reply |-> text.json]

\* A validate-answer request answered with a grading result.
Graded(r, questionType, from, graded, calls) ==
  /\ DoUpdate(r, graded.isCorrect)
  /\ resp' = [Response("validate-answer", 200, "")
                EXCEPT !.user = reqs[r].user, !.questionType = questionType,
                       !.isCorrect = graded.isCorrect, !.feedback = graded.feedback,
                       !.answer = from.answer, !.correctAnswer = from.correctAnswer,
                       !.reply = from.reply,
                       !.evaluatorCalls = calls,
                       !.userStats = getStats(lastUpdate'.after),
                       !.changed = Changed]
  /\ hist' = [hist EXCEPT !.graded = @ + 1,
                          !.correct = IF Truthy(graded.isCorrect) THEN @ + 1 ELSE @]
  /\ Finish(r)

\* The catch block of validate-answer, after calls calls of the evaluator.
ValidateFailed_counted(r, questionType, calls) ==
  /\ DoUpdate(r, "false")
  /\ resp' = [Response("validate-answer", 500, "Failed to validate answer. Please try again.")
                EXCEPT !.user = reqs[r].user, !.questionType = questionType,
                       !.evaluatorCalls = calls,
                       !.reply = IF calls = 0 THEN "" ELSE "throws",
                       !.changed = Changed]
  /\ Finish(r)
  /\ UNCHANGED hist
ValidateFailed(r, questionType, calls) ==
  /\ UNCHANGED <<users, hist>>
  /\ resp' = [Response("validate-answer", 500, "Failed to validate answer. Please try again.")
                EXCEPT !.user = reqs[r].user, !.questionType = questionType,
                       !.evaluatorCalls = calls,
                       !.reply = IF calls = 0 THEN "" ELSE "throws",
                       !.changed = Changed]
  /\ lastUpdate' = NoUpdate
  /\ Finish(r)

\* errors.array(): the messages of the validation rules that failed
ValidationErrors_anyType(questionId, answer, questionType) ==
  (IF questionId = "" THEN {"Question ID is required"} ELSE {})
    \cup (IF answer = "" THEN {"Answer is required"} ELSE {})
ValidationErrors(questionId, answer, questionType) ==
  (IF questionId = "" THEN {"Question ID is required"} ELSE {})
    \cup (IF answer = "" THEN {"Answer is required"} ELSE {})
    \cup (IF questionType \notin QuestionTypes THEN {"Invalid question type"} ELSE {})

\* case 'MCQ': isCorrect = answer === correctAnswer.  A value is named by
\* its text; "number 1" names the number 1 and "1" the string '1'.
gradeMCQ_loose(answer, correctAnswer) ==
  IF answer = correctAnswer \/ {answer, correctAnswer} = {"1", "number 1"}
  THEN "true" ELSE "false"
gradeMCQ(answer, correctAnswer) ==
  IF answer = correctAnswer THEN "true" ELSE "false"

\* ------------------------------------------ POST /questions/validate-answer
ValidateAnswer(r, questionId, answer, questionType, correctAnswer) ==
  /\ reqs[r].pc = "loaded"
  /\ IF ValidationErrors(questionId, answer, questionType) # {}
     THEN /\ resp' = [Response("validate-answer", 400, "Validation failed")
                        EXCEPT !.user = reqs[r].user,
                               !.errors = ValidationErrors(questionId, answer, questionType)]
          /\ lastUpdate' = NoUpdate
          /\ Finish(r)
          /\ UNCHANGED <<users, hist>>
     ELSE IF questionType = "MCQ"
     THEN LET isCorrect == gradeMCQ(answer, correctAnswer)
          IN Graded(r, questionType, Submitted(answer, correctAnswer),
                    [isCorrect |-> isCorrect,
                     feedback |-> IF isCorrect = "true" THEN "Correct!" ELSE "Incorrect."],
                    0)
     ELSE IF questionType = "coding"
     THEN \* await model.generateContent(codePrompt)
          /\ reqs' = [reqs EXCEPT ![r].pc = "evaluating", ![r].op = questionType]
          /\ UNCHANGED <<users, resp, lastUpdate, hist>>
     ELSE IF questionType = "sql"
     THEN \* model is declared by const in the 'coding' case of the same switch
          \* block: reading it here throws a ReferenceError before any call
          ValidateFailed(r, questionType, 0)
     ELSE Graded(r, questionType, Submitted(answer, correctAnswer),
                 [isCorrect |-> "false",
                  feedback |-> "Answer validation not implemented for this question type."],
                 0)
  /\ UNCHANGED <<now, subjects, client>>

\* The evaluator's text arrives.
EvaluatorReplies(r, text) ==
  /\ reqs[r].pc = "evaluating"
  /\ LET evaluationResult == parseCodeEvaluation(text)
     IN Graded(r, reqs[r].op, Replied(text),
               [isCorrect |-> evaluationResult.isCorrect,
                feedback |-> evaluationResult.feedback],
               1)
  /\ UNCHANGED <<now, subjects, client>>

\* The evaluator call rejects.
EvaluatorThrows(r) ==
  /\ reqs[r].pc = "evaluating"
  /\ ValidateFailed(r, reqs[r].op, 1)
  /\ UNCHANGED <<now, subjects, client>>

\* The catch block of generate: the generator call threw, or its text
\* could not be parsed.
GenerateFailed(r, reply, text) ==
  /\ UNCHANGED <<users, hist>>
  /\ resp' = [Response("generate", 500, "Failed to generate questions. Please try again.")
                EXCEPT !.user = reqs[r].user, !.evaluatorCalls = 1,
                       !.reply = reply, !.text = text, !.changed = Changed]
  /\ lastUpdate' = NoUpdate
  /\ Finish(r)

\* ------------------------------------------------ POST /questions/generate
Generate(r, valid) ==
  /\ reqs[r].pc = "loaded"
  /\ IF ~valid
     THEN /\ resp' = [Response("generate", 400, "Validation failed")
                        EXCEPT !.user = reqs[r].user]
          /\ lastUpdate' = NoUpdate
          /\ Finish(r)
          /\ UNCHANGED <<users, hist>>
     ELSE \* await model.generateContent(prompt)
          /\ reqs' = [reqs EXCEPT ![r].pc = "generating", ![r].op = "generate"]
          /\ UNCHANGED <<users, resp, lastUpdate, hist>>
  /\ UNCHANGED <<now, subjects, client>>

\* The generator's text arrives.
GeneratorReplies_noUpdate(r, text) ==
  /\ reqs[r].pc = "generating"
  /\ LET parsed == parseGeneratedQuestions(text)
     IN IF parsed.threw
        THEN GenerateFailed(r, "text", text)
        ELSE /\ resp' = [Response("generate", 200, "Questions generated successfully")
                           EXCEPT !.user = reqs[r].user, !.evaluatorCalls = 1,
                                  !.reply = "text", !.text = text,
                                  !.questions = parsed.questions]
             /\ lastUpdate' = NoUpdate
             /\ Finish(r)
             /\ UNCHANGED <<users, hist>>
  /\ UNCHANGED <<now, subjects, client>>
GeneratorReplies(r, text) ==
  /\ reqs[r].pc = "generating"
  /\ LET parsed == parseGeneratedQuestions(text)
     IN IF parsed.threw
        THEN GenerateFailed(r, "text", text)
        ELSE /\ DoUpdate(r, "false")
             /\ resp' = [Response("generate", 200, "Questions generated successfully")
                           EXCEPT !.user = reqs[r].user, !.evaluatorCalls = 1,
                                  !.reply = "text", !.text = text,
                                  !.questions = parsed.questions, !.changed = Changed]
             /\ Finish(r)
             /\ UNCHANGED hist
  /\ UNCHANGED <<now, subjects, client>>

\* The generator call rejects.
GeneratorThrows(r) ==
  /\ reqs[r].pc = "generating"
  /\ GenerateFailed(r, "throws", <<>>)
  /\ UNCHANGED <<now, subjects, client>>

\* Account 1 has just registered, with no face descriptor.
InitProgress ==
  /\ users = [id \in UserIds |->
                IF id = 1 THEN NewUser(<<"a", "@", "b">>, "Abc123", NoDescriptor, 0) ELSE NoUser]
  /\ now = 0
  /\ reqs = [r \in ReqIds |-> IdleReq]
  /\ resp = [Response("register", 201, "User registered successfully")
               EXCEPT !.token = 1, !.user = 1, !.email = <<"a", "@", "b">>, !.changed = {1}]
  /\ lastUpdate = NoUpdate
  /\ hist = NoHist
  /\ subjects = NoSubjects
  /\ client = initialState(JsNull)

Answers == {"", "A", "B"}

Handlers ==
  \/ \E r \in ReqIds, questionId \in {"", "q1"}, answer \in Answers,
        questionType \in QuestionTypes \cup {"essay"}, correctAnswer \in {"A"} :
       ValidateAnswer(r, questionId, answer, questionType, correctAnswer)
  \/ \E r \in ReqIds, text \in EvalReplies : EvaluatorReplies(r, text)
  \/ \E r \in ReqIds : EvaluatorThrows(r)
  \/ \E r \in ReqIds, valid \in BOOLEAN : Generate(r, valid)
  \/ \E r \in ReqIds, text \in GenReplies : GeneratorReplies(r, text)
  \/ \E r \in ReqIds : GeneratorThrows(r)

\* One request at a time, over several days.
NextProgress ==
  \/ Tick
  \/ \E r \in ReqIds, id \in UserIds : InFlight(id) = {} /\ AuthLoad(r, id)
  \/ Handlers

SpecProgress == InitProgress /\ [][NextProgress]_vars

\* Requests in flight together, within one clock step.
NextRace ==
  \/ \E r \in ReqIds, id \in UserIds : AuthLoad(r, id)
  \/ Handlers

SpecRace == InitProgress /\ [][NextRace]_vars

\* Grading requests one at a time, with answers of several JavaScript types.
GradeAnswers == {"", "A", "B", "1"}
CorrectAnswers == {"A", "B", "1", "number 1", "undefined"}

NextGrade ==
  \/ \E r \in ReqIds, id \in UserIds : InFlight(id) = {} /\ AuthLoad(r, id)
  \/ \E r \in ReqIds, questionId \in {"", "q1"}, answer \in GradeAnswers,
        questionType \in QuestionTypes \cup {"essay"}, correctAnswer \in CorrectAnswers :
       ValidateAnswer(r, questionId, answer, questionType, correctAnswer)
  \/ \E r \in ReqIds, text \in EvalReplies : EvaluatorReplies(r, text)
  \/ \E r \in ReqIds : EvaluatorThrows(r)

SpecGrade == InitProgress /\ [][NextGrade]_vars

\* Generation requests one at a time, with every text of up to MaxTextLen
\* characters.
GenTexts == UNION {[1..n -> TextChars] : n \in 0..MaxTextLen}

NextGenerate ==
  \/ \E r \in ReqIds, id \in UserIds : InFlight(id) = {} /\ AuthLoad(r, id)
  \/ \E r \in ReqIds, valid \in BOOLEAN : Generate(r, valid)
  \/ \E r \in ReqIds, text \in GenTexts : GeneratorReplies(r, text)
  \/ \E r \in ReqIds : GeneratorThrows(r)

SpecGenerate == InitProgress /\ [][NextGenerate]_vars

\* ===================================================== progress claims
\* hist.graded counts the validate-answer requests answered with a grading
\* result, hist.correct those among them graded correct.
Account == users[1].progress

\* C3: after N grading calls on the account, K of them graded correct, with
\* no interleaving, total-answered = N, correct-count = K and points = 10 K,
\* whatever other operations ran in between.
C3_TotalsMatchGradingCalls ==
  /\ Account.totalQuestions = hist.graded
  /\ Account.correctAnswers = hist.correct
  /\ Account.points = PointsPerCorrect * hist.correct

\* A validate-answer request that passed validation and whose evaluator
\* call, if it made one, returned.
GradingCallCompleted ==
  /\ resp.op = "validate-answer"
  /\ resp.status # 400
  /\ ~(resp.status = 500 /\ resp.evaluatorCalls = 1)

\* C4: every grading call, whatever its question type and outcome, adds 1
\* to total-answered, adds to correct-count and points only when graded
\* correct, and recomputes the streak.
C4_EveryGradingCallUpdates ==
  GradingCallCompleted =>
    /\ lastUpdate.made
    /\ lastUpdate.after.totalQuestions = lastUpdate.before.totalQuestions + 1
    /\ lastUpdate.after.correctAnswers =
         lastUpdate.before.correctAnswers + (IF lastUpdate.truthy THEN 1 ELSE 0)
    /\ lastUpdate.after.points =
         lastUpdate.before.points + (IF lastUpdate.truthy THEN PointsPerCorrect ELSE 0)
    /\ Account.totalQuestions = lastUpdate.after.totalQuestions

\* C5: a 'coding' and an 'sql' request alike reach the evaluator exactly once
\* and, when it replies, are answered with a grading result.
C5_CodingAndSqlReachEvaluator ==
  (/\ resp.op = "validate-answer"
   /\ resp.status # 400
   /\ resp.questionType \in {"coding", "sql"}) =>
    resp.evaluatorCalls = 1

DaysBetween == toDateString(lastUpdate.at) - toDateString(lastUpdate.before.lastActiveDate)

\* C6: an update exactly one calendar day after the last recorded activity
\* adds exactly 1 to the streak, for every pair of times of day.
C6_NextDayIncrementsStreak ==
  (lastUpdate.made /\ DaysBetween = 1) =>
    lastUpdate.after.streakDays = lastUpdate.before.streakDays + 1

\* C7: an update on the calendar day of the last recorded activity leaves
\* the streak as it was.
C7_SameDayKeepsStreak ==
  (lastUpdate.made /\ DaysBetween = 0) =>
    /\ lastUpdate.after.streakDays = lastUpdate.before.streakDays
    /\ Account.streakDays = lastUpdate.before.streakDays

\* A same-day update of an account whose streak is running.
C7_Witness ==
  /\ lastUpdate.made
  /\ DaysBetween = 0
  /\ lastUpdate.at > lastUpdate.before.lastActiveDate
  /\ lastUpdate.before.streakDays >= 1

\* C8: an update two or more calendar days after the last recorded activity
\* sets the streak to exactly 1, whatever it was.
C8_BrokenStreakIsOne ==
  (lastUpdate.made /\ DaysBetween >= 2) =>
    /\ lastUpdate.after.streakDays = 1
    /\ Account.streakDays = 1

\* An update two days late that takes a streak of 2 back to 1.
C8_Witness ==
  /\ lastUpdate.made
  /\ DaysBetween >= 2
  /\ lastUpdate.before.streakDays = 2
  /\ Account.streakDays = 1

\* C9: no guard protects the read-modify-write of the progress aggregate:
\* what a grading request saves is what it computed from the document it
\* loaded, whatever other requests saved since.
C9_LastWriteWins ==
  (resp.op = "validate-answer" /\ resp.status = 200) =>
    /\ Account.totalQuestions = resp.userStats.totalQuestions
    /\ lastUpdate.truthy =>
         /\ Account.correctAnswers = resp.userStats.correctAnswers
         /\ Account.points = resp.userStats.points

\* Two grading requests loaded the account before either saved, both were
\* graded correct and both were answered, and the totals moved by one.
C9_Witness ==
  /\ hist.overlap
  /\ hist.started = 2
  /\ hist.graded = 2
  /\ hist.correct = 2
  /\ InFlight(1) = {}
  /\ Account.totalQuestions = 1
  /\ Account.correctAnswers = 1
  /\ Account.points = PointsPerCorrect

\* ======================================================== face-login claims
\* The accounts face-login may accept for a query: a stored vector of the
\* query's length whose similarity is strictly above 0.6.
Eligible(us, q) ==
  {id \in UserIds :
     /\ us[id].exists
     /\ us[id].faceDescriptor.set
     /\ Len(us[id].faceDescriptor.vec) = Len(q)
     /\ SimGT(calculateSimilarity(q, us[id].faceDescriptor.vec), threshold)}

Score(us, q, id) == calculateSimilarity(q, us[id].faceDescriptor.vec)

\* The eligible accounts no other eligible account beats.
Best(us, q) ==
  {id \in Eligible(us, q) :
     \A o \in Eligible(us, q) : ~SimGT(Score(us, q, o), Score(us, q, id))}

FirstBest(us, q) == CHOOSE id \in Best(us, q) : \A o \in Best(us, q) : id <= o

\* C1: face-login issues a token only for an account whose similarity to the
\* query is strictly above 0.6; when no stored vector of the query's length
\* scores above 0.6 the request ends 401 'Face not recognized', issues no
\* token and leaves every account as it was.
C1_NoLowConfidenceLogin ==
  (resp.op = "face-login" /\ resp.query.set) =>
    /\ resp.token # NoToken => resp.token \in Eligible(users, resp.query.vec)
    /\ Eligible(users, resp.query.vec) = {} =>
         /\ resp.status = 401
         /\ resp.message = "Face not recognized"
         /\ resp.token = NoToken
         /\ resp.changed = {}

\* A face-login that was refused although a stored vector of the query's
\* length scores exactly 0.6.
C1_Witness ==
  /\ resp.op = "face-login"
  /\ resp.status = 401
  /\ resp.message = "Face not recognized"
  /\ resp.query.set
  /\ \E id \in UserIds :
       /\ users[id].exists
       /\ users[id].faceDescriptor.set
       /\ Len(users[id].faceDescriptor.vec) = Len(resp.query.vec)
       /\ LET s == Score(users, resp.query.vec, id)
          IN ~IsNaN(s) /\ ~SimGT(s, threshold) /\ ~SimGT(threshold, s)

\* C2 as stated: whenever some account with a stored vector of the query's
\* length scores strictly above 0.6, face-login logs in as the account with
\* the maximum similarity among those accounts.
C2_AlwaysLogsInBest ==
  (resp.op = "face-login" /\ resp.query.set /\ Eligible(users, resp.query.vec) # {}) =>
    /\ resp.status = 200
    /\ resp.token \in Best(users, resp.query.vec)

\* C2 as amended: face-login selects the account with the maximum similarity
\* among those accounts and logs in as it provided it is active; when that
\* account is deactivated the request is refused and no token is issued.
C2_SelectsBest ==
  (resp.op = "face-login" /\ resp.query.set /\ Eligible(users, resp.query.vec) # {}) =>
    LET m == FirstBest(users, resp.query.vec)
    IN IF users[m].isActive
       THEN /\ resp.status = 200
            /\ resp.token = m
            /\ resp.similarity = Score(users, resp.query.vec, m)
       ELSE /\ resp.status = 401
            /\ resp.message = "Account is deactivated"
            /\ resp.token = NoToken

\* A successful face-login as the second account while the first account is
\* eligible too, with a lower score.
C2_Witness ==
  /\ resp.op = "face-login"
  /\ resp.status = 200
  /\ resp.token # NoToken
  /\ \E o \in Eligible(users, resp.query.vec) :
       /\ o < resp.token
       /\ SimGT(Score(users, resp.query.vec, resp.token), Score(users, resp.query.vec, o))

\* C10: a stored face vector, when present, has exactly 128 components.
C10_StoredVectorHas128 ==
  \A id \in UserIds :
    (users[id].exists /\ users[id].faceDescriptor.set) =>
      Len(users[id].faceDescriptor.vec) = DescriptorLength

\* ============================================================ login claims
\* C11: every authentication failure of password login and face login
\* (unknown email, wrong password, no vector match, deactivated account) is
\* answered with the same status and the same body: the answer to a failed
\* login is the answer any other failing login request gets in the same state.
C11_AuthFailuresIndistinguishable ==
  (resp.op \in {"login", "face-login"} /\ resp.status = 401) =>
    \A email \in ClientEmails, password \in ClientPasswords :
      LET o == LoginOutcome(users, normalizeEmail(email), password)
      IN o.status = 401 => o.message = resp.message

\* a = b ignoring case
EqualIgnoringCase(a, b) == toLowerCase(a) = toLowerCase(b)

\* C12: no two accounts have emails that are equal ignoring case; a register
\* request whose email equals an existing account's email ignoring case is
\* rejected with 400 and creates nothing.
C12_EmailsUniqueIgnoringCase ==
  /\ \A a, b \in UserIds :
       (a # b /\ users[a].exists /\ users[b].exists) =>
         ~EqualIgnoringCase(users[a].email, users[b].email)
  /\ (/\ resp.op = "register"
      /\ resp.message # "Validation failed"
      /\ \E u \in UserIds \ {resp.user} :
           users[u].exists /\ EqualIgnoringCase(users[u].email, resp.email)) =>
       /\ resp.status = 400
       /\ resp.message = "User with this email already exists"
       /\ resp.token = NoToken
       /\ resp.changed = {}

\* A register request rejected for an address that differs from the stored
\* one in case only.
C12_Witness ==
  /\ resp.op = "register"
  /\ resp.status = 400
  /\ resp.message = "User with this email already exists"
  /\ \E u \in UserIds :
       /\ users[u].exists
       /\ users[u].email # resp.email
       /\ EqualIgnoringCase(users[u].email, resp.email)
  /\ \E u \in UserIds : ~users[u].exists

\* ========================================================== grading claims
\* C13: an MCQ answer is graded correct exactly when the submitted answer and
\* the correct answer are strictly equal, without a call to the evaluator,
\* and the same pair gets the same grade in every state of the account.
C13_McqGradingIsEquality ==
  (resp.op = "validate-answer" /\ resp.questionType = "MCQ") =>
    /\ resp.status = 200
    /\ resp.isCorrect = (IF resp.answer = resp.correctAnswer THEN "true" ELSE "false")
    /\ resp.evaluatorCalls = 0
    /\ lastUpdate.made
    /\ lastUpdate.truthy = (resp.answer = resp.correctAnswer)

\* The string '1' graded incorrect against the number 1, on an account that
\* has answered questions before.
C13_Witness ==
  /\ resp.op = "validate-answer"
  /\ resp.questionType = "MCQ"
  /\ resp.answer = "1"
  /\ resp.correctAnswer = "number 1"
  /\ resp.isCorrect = "false"
  /\ lastUpdate.before.totalQuestions >= 1

\* C14: when the evaluator's text has no JSON object substring, or the
\* substring is not valid JSON, the grade is isCorrect = false with a generic
\* failure text, and the request still completes with a success envelope.
C14_UnparsableReplyGradesFalse ==
  /\ (resp.op = "validate-answer" /\ resp.reply \in {"none", "invalid"}) =>
       /\ resp.status = 200
       /\ resp.isCorrect = "false"
       /\ resp.feedback \in {"Unable to evaluate answer", "Error evaluating answer"}
       /\ lastUpdate.made
       /\ ~lastUpdate.truthy
  /\ \A text \in EvalReplies :
       text.json \in {"none", "invalid"} =>
         /\ parseSQLEvaluation(text).isCorrect = "false"
         /\ parseSQLEvaluation(text).feedback
              \in {"Unable to evaluate SQL answer", "Error evaluating SQL answer"}

\* A coding answer whose evaluation text held braces but no valid JSON,
\* answered 200 and graded incorrect.
C14_Witness ==
  /\ resp.op = "validate-answer"
  /\ resp.questionType = "coding"
  /\ resp.reply = "invalid"
  /\ resp.status = 200
  /\ resp.isCorrect = "false"
  /\ resp.evaluatorCalls = 1

NotImplemented == "Answer validation not implemented for this question type."

\* C15 as stated: for any question-type tag other than MCQ, coding and sql
\* the request is graded isCorrect = false with the message that validation
\* is not implemented for the type.
C15_OtherTagsGradeFalse ==
  (/\ resp.op = "validate-answer"
   /\ \/ resp.questionType \in {"network", "chatbot"}
      \/ resp.errors = {"Invalid question type"}) =>
    /\ resp.status = 200
    /\ resp.isCorrect = "false"
    /\ resp.feedback = NotImplemented

\* C15 as amended: the tags network and chatbot are graded isCorrect = false
\* with that message whatever the answers are; a tag outside the five the
\* validation rule lists is rejected 400 and nothing is graded.
C15_UnsupportedTypesGradeFalse ==
  resp.op = "validate-answer" =>
    /\ resp.questionType \in {"network", "chatbot"} =>
         /\ resp.status = 200
         /\ resp.isCorrect = "false"
         /\ resp.feedback = NotImplemented
         /\ resp.evaluatorCalls = 0
    /\ resp.feedback = NotImplemented => resp.questionType \in {"network", "chatbot"}
    /\ "Invalid question type" \in resp.errors =>
         /\ resp.status = 400
         /\ ~lastUpdate.made

\* A network answer equal to the correct answer, graded incorrect.
C15_Witness ==
  /\ resp.op = "validate-answer"
  /\ resp.questionType = "network"
  /\ resp.answer = "A"
  /\ resp.correctAnswer = "A"
  /\ resp.isCorrect = "false"
  /\ resp.feedback = NotImplemented

\* C16: an update of the progress aggregate never decreases the stored
\* total-answered, correct-count or points, and decreases the stored streak
\* only by setting it to 1.
C16_ProgressNeverDecreases ==
  lastUpdate.made =>
    /\ Account.totalQuestions >= lastUpdate.stored.totalQuestions
    /\ Account.correctAnswers >= lastUpdate.stored.correctAnswers
    /\ Account.points >= lastUpdate.stored.points
    /\ Account.streakDays < lastUpdate.stored.streakDays => Account.streakDays = 1

\* ======================================================= similarity claims
\* the value 1
IsOne(s) == ~IsNaN(s) /\ s.num = 0
BothArrays == IsArray(resp.descriptor1) /\ IsArray(resp.descriptor2)

\* C17: the similarity of an array with itself is exactly 1, whatever its
\* length (the empty array included), and compare judges the pair a match.
C17_SelfSimilarityIsOne ==
  (resp.op = "compare" /\ BothArrays /\ resp.descriptor1 = resp.descriptor2) =>
    /\ resp.status = 200
    /\ IsOne(resp.similarity)
    /\ resp.isMatch
    /\ IsOne(calculateSimilarity(resp.descriptor1.vec, resp.descriptor2.vec))

\* C18: two arrays of different lengths have similarity exactly 0 whatever
\* they hold, and compare answers 200 with isMatch = false.
C18_DifferentLengthsScoreZero ==
  (/\ resp.op = "compare"
   /\ BothArrays
   /\ Len(resp.descriptor1.vec) # Len(resp.descriptor2.vec)) =>
    /\ resp.status = 200
    /\ resp.similarity = SimZero
    /\ ~resp.isMatch
    /\ calculateSimilarity(resp.descriptor1.vec, resp.descriptor2.vec) = SimZero

\* A one-component array compared with a longer array that starts with the
\* same component.
C18_Witness ==
  /\ resp.op = "compare"
  /\ resp.status = 200
  /\ BothArrays
  /\ Len(resp.descriptor1.vec) = 1
  /\ Len(resp.descriptor2.vec) = 3
  /\ resp.descriptor1.vec[1] = resp.descriptor2.vec[1]
  /\ resp.similarity = SimZero

\* s = max(0, 1 - sqrt(sum / (Scale2 * length)))
IsClampedScore(s, sum, length) ==
  /\ ~IsNaN(s)
  /\ IF sum >= Scale2 * length
     THEN s.num >= s.den
     ELSE s.num * Scale2 * length = sum * s.den

\* C19: for every pair of arrays, of any lengths, the similarity is a number
\* in [0, 1], and it is max(0, 1 - distance / sqrt(length)) when the lengths
\* are equal.
C19_SimilarityInUnitRange ==
  (resp.op = "compare" /\ BothArrays) =>
    LET d1 == resp.descriptor1.vec
        d2 == resp.descriptor2.vec
    IN /\ resp.status = 200
       /\ \A s \in {resp.similarity, calculateSimilarity(d1, d2)} :
            /\ ~IsNaN(s)
            /\ 0 <= s.num
            /\ s.num <= s.den
            /\ Len(d1) = Len(d2) =>
                 IsClampedScore(s, SumSquaredDiff(d1, d2, 1, Len(d1)), Len(d1))

\* C20: when several stored vectors tie for the maximum similarity above the
\* threshold, face-login logs in as the one that comes first in the order
\* the accounts are scanned: every eligible account before the chosen one
\* scores strictly less, and no eligible account after it scores more.
C20_TieGoesToFirstSeen ==
  (resp.op = "face-login" /\ resp.status = 200) =>
    \A o \in Eligible(users, resp.query.vec) :
      /\ o < resp.token =>
           SimGT(Score(users, resp.query.vec, resp.token), Score(users, resp.query.vec, o))
      /\ o > resp.token =>
           ~SimGT(Score(users, resp.query.vec, o), Score(users, resp.query.vec, resp.token))

\* A face-login as the first account while the second, active, account has
\* the same score.
C20_Witness ==
  /\ resp.op = "face-login"
  /\ resp.status = 200
  /\ resp.token = 1
  /\ 2 \in Eligible(users, resp.query.vec)
  /\ users[2].isActive
  /\ Score(users, resp.query.vec, 2) = Score(users, resp.query.vec, 1)

\* ======================================================= generation claims
\* The substrings of a text that are well-formed JSON arrays, by position.
ArraySubstrings(text) ==
  {p \in (DOMAIN text) \X (DOMAIN text) :
     p[1] < p[2] /\ IsJsonArray(SubSeq(text, p[1], p[2]))}

FirstArraySubstring(text) ==
  LET p == CHOOSE p \in ArraySubstrings(text) :
             \A o \in ArraySubstrings(text) : p[1] <= o[1]
  IN SubSeq(text, p[1], p[2])

\* C21: generation parses the first well-formed JSON array substring of the
\* generator's text; when the text has none the request ends with an error
\* response, after one call to the generator and with nothing recovered.
C21_ParsesFirstArraySubstring ==
  (resp.op = "generate" /\ resp.reply = "text") =>
    IF ArraySubstrings(resp.text) = {}
    THEN /\ resp.status = 500
         /\ resp.questions = <<>>
         /\ resp.evaluatorCalls = 1
    ELSE /\ resp.status = 200
         /\ resp.questions = FirstArraySubstring(resp.text)

\* C22: when the evaluator or the generator call throws, the request ends
\* with a 500 error envelope after that one call and the stored progress
\* aggregate is what it was before the request.
C22_FailedCallFailsOnce ==
  (resp.op \in {"validate-answer", "generate"} /\ resp.reply = "throws") =>
    /\ resp.status = 500
    /\ resp.evaluatorCalls = 1
    /\ resp.changed = {}
    /\ ~lastUpdate.made

\* A coding request whose evaluator call threw, on an account that has
\* answered a question before.
C22_Witness ==
  /\ resp.op = "validate-answer"
  /\ resp.questionType = "coding"
  /\ resp.reply = "throws"
  /\ resp.status = 500
  /\ Account.totalQuestions >= 1

\* C24: a successful generation request changes the progress aggregate as one
\* incorrect answer does: total-answered grows by 1, the last-active date is
\* set to the time of the request and the streak is recomputed, correct-count
\* and points stay; a generation request that fails changes nothing.
C24_GenerateCountsAsIncorrect ==
  resp.op = "generate" =>
    IF resp.status = 200
    THEN /\ lastUpdate.made
         /\ ~lastUpdate.truthy
         /\ resp.changed = {resp.user}
         /\ Account.totalQuestions = lastUpdate.before.totalQuestions + 1
         /\ Account.correctAnswers = lastUpdate.before.correctAnswers
         /\ Account.points = lastUpdate.before.points
         /\ Account.lastActiveDate = lastUpdate.at
         /\ Account.streakDays =
              (IF DaysBetween = 0 THEN lastUpdate.before.streakDays
               ELSE IF lastUpdate.at <= lastUpdate.before.lastActiveDate + DayMs
               THEN lastUpdate.before.streakDays + 1
               ELSE 1)
    ELSE /\ ~lastUpdate.made
         /\ resp.changed = {}

\* A generation request answered 200 on a later day than the account's last
\* activity, after a correct answer.
C24_Witness ==
  /\ resp.op = "generate"
  /\ resp.status = 200
  /\ DaysBetween >= 1
  /\ Account.correctAnswers >= 1
  /\ Account.totalQuestions >= 2

\* ========================================================== subject claims
SubjectOps == {"subject", "topics", "topic", "request-questions"}
Elements(seq) == {seq[i] : i \in DOMAIN seq}

\* C23: the four subject-scoped routes never expose an unavailable resource:
\* they answer 404 whenever the subject is missing or inactive, the topic
\* routes answer 404 whenever the requested topic is missing or inactive,
\* the list of /:id/topics holds exactly the subject's topics whose active
\* flag is true, and no answer carries an inactive topic.
C23_NeverExposesUnavailable ==
  resp.op \in SubjectOps =>
    LET subject == subjects[resp.subjectId]
        wanted == {t \in Elements(subject.topics) : t.id = resp.topicId}
    IN /\ (~subject.exists \/ ~subject.isActive) => resp.status = 404
       /\ (resp.op \in {"topic", "request-questions"} /\ resp.topicId # 0) =>
            ((\A t \in wanted : ~t.isActive) => resp.status = 404)
       /\ resp.status \in {200, 404}
       /\ (resp.status = 200 /\ resp.topicId # 0) =>
            /\ resp.topic \in wanted
            /\ resp.topic.isActive
       /\ (resp.op = "topics" /\ resp.status = 200) =>
            /\ Elements(resp.topics) = {t \in Elements(subject.topics) : t.isActive}
            /\ Len(resp.topics) = Cardinality(Elements(resp.topics))
       /\ resp.status = 200 => \A t \in Elements(resp.topics) : t.isActive

\* ================================================== deactivated accounts
\* C25: face-login reads the active flag of the best-scoring account only:
\* when the best match above the threshold is deactivated the request ends
\* 401 without a token and without a write, even when another, active
\* account scores above the threshold too; and neither login nor face-login
\* issues a token for a deactivated account.
C25_DeactivatedNeverLogsIn ==
  /\ (/\ resp.op = "face-login"
      /\ resp.query.set
      /\ Eligible(users, resp.query.vec) # {}
      /\ ~users[FirstBest(users, resp.query.vec)].isActive) =>
       /\ resp.status = 401
       /\ resp.token = NoToken
       /\ resp.changed = {}
  /\ (resp.op \in {"login", "face-login"} /\ resp.token # NoToken) =>
       /\ resp.status = 200
       /\ users[resp.token].exists
       /\ users[resp.token].isActive

\* A face-login refused for its deactivated best match while an active
\* account scores above the threshold as well.
C25_Witness ==
  /\ resp.op = "face-login"
  /\ resp.status = 401
  /\ resp.message = "Account is deactivated"
  /\ \E other \in Eligible(users, resp.query.vec) :
       /\ other # FirstBest(users, resp.query.vec)
       /\ users[other].isActive

\* ===================================================== the grade's type
\* C26: the isCorrect of a coding or sql grading is a boolean whatever the
\* evaluator's JSON carries in its isCorrect field, and correct-count and
\* points are incremented only when that field was the boolean true.
C26_GradeIsBoolean ==
  (/\ resp.op = "validate-answer"
   /\ resp.status = 200
   /\ resp.questionType \in {"coding", "sql"}) =>
    /\ resp.isCorrect \in {"true", "false"}
    /\ lastUpdate.truthy => resp.isCorrect = "true"
    /\ lastUpdate.after.correctAnswers > lastUpdate.before.correctAnswers =>
         resp.isCorrect = "true"

\* ============================================== correct against answered
\* C27: in every reachable state of an account, the states reached by
\* generate and validate-answer requests that loaded the account before
\* another one saved it included, correct-count is at most total-answered.
C27_CorrectAtMostAnswered ==
  Account.correctAnswers <= Account.totalQuestions

\* ================================================ the two scorers agree
\* The database that holds one account, whose stored vector is stored.
SoleCandidate(stored) ==
  [id \in UserIds |->
     IF id = 1 THEN NewUser(<<"a", "@", "b">>, "Abc123", Descriptor(stored), 0)
     ELSE NoUser]

\* C30: the scorer of the face-recognition routes returns what the scorer of
\* the auth routes returns for the same two vectors, so compare reports
\* isMatch = true for (query, stored) exactly when the face-login loop,
\* run for the query over the stored vector as its only candidate, matches.
C30_ScorersAgree ==
  (resp.op = "compare" /\ resp.status = 200) =>
    LET query == resp.descriptor1.vec
        stored == resp.descriptor2.vec
    IN /\ resp.similarity = calculateSimilarity(query, stored)
       /\ resp.isMatch
            <=> FaceLoginLoop(SoleCandidate(stored), query, 1, NoMatch).matchedUser # NoToken

\* Two different arrays of several components compared and found to match.
C30_Witness ==
  /\ resp.op = "compare"
  /\ resp.status = 200
  /\ resp.isMatch
  /\ Len(resp.descriptor1.vec) >= 2
  /\ resp.descriptor1.vec # resp.descriptor2.vec

\* ============================================================ client claims
\* C28: in every state of the client's auth state machine a non-null user
\* comes with a non-null token, and a protected route shows its content
\* only when AUTH_SUCCESS was dispatched after the last LOGOUT or
\* AUTH_FAILURE.
C28_UserImpliesToken ==
  /\ IsTruthy(client.user) => client.token # JsNull
  /\ ProtectedRoute(client) = "children" => client.authed

\* C29: when the application has loaded with a stored token the server
\* accepts, the auth check ends with loading false, the token kept and user
\* the account object GET /auth/me returned, so that a protected route shows
\* its content; with no stored token or a rejected one it ends with user
\* and token null and loading false.
C29_CheckAuthSettles ==
  (client.pc = "done" /\ client.last = "checkAuth") =>
    IF client.check = "accepted"
    THEN /\ ~client.loading
         /\ client.token = client.checkToken
         /\ client.stored = client.checkToken
         /\ client.user = ServerUser
         /\ ProtectedRoute(client) = "children"
    ELSE /\ ~client.loading
         /\ client.user = JsNull
         /\ client.token = JsNull

====
